---- MODULE Spec2Model ----
(***************************************************************************)
(* A model of guardian_crawler.py (class GuardianCrawler) and of the       *)
(* launcher run_crawler.py.                                                *)
(*                                                                         *)
(* The crawler is one coroutine: run() calls crawl_page on the front page, *)
(* then explore_archives, then save_results.  crawl_page and               *)
(* handle_pagination call each other recursively; the call stack is the    *)
(* variable `stack`.  The renderer (Playwright) is the environment: what a *)
(* page holds is the variable `site`, fixed when the session starts, and a *)
(* navigation may fail.                                                    *)
(***************************************************************************)
EXTENDS Integers, Sequences, FiniteSets, TLC

(***************************************************************************)
(* Bounds of the model.                                                    *)
(***************************************************************************)
\* Length n of the chain of "next"-linked listing pages (5 in the spec).
ChainLen == 4
\* CPython's recursion limit, counted in nested crawl_page calls: a call
\* beyond it raises RecursionError (an Exception) inside crawl_page's try.
RecursionLimit == 6
\* How many navigations the renderer may fail in one session.
MaxFails == 1
\* Largest timestamp of the model; timestamps are 0..MaxTime.
MaxTime == 5
\* Largest page height the renderer reports; heights are 0..MaxHeight.
MaxHeight == 3
\* How many valid links more than explore_archives' limit of discovered
\* URLs the largest front page has.
MaxExtra == 2

(***************************************************************************)
(* URLs.  A URL string is modelled by what the code reads from it: the     *)
(* kind says which host it has and which substrings it contains, n tells   *)
(* URLs of one kind apart.                                                 *)
(*   base     https://www.guardian.co.tt              (self.base_url)      *)
(*   section  base_url + "/news", "/sports", ...      (working_urls)       *)
(*   page     .../news?page=n    same host, no content substring           *)
(*   story    .../news/slug-6.2.n   same host, content substring           *)
(*   bare     the same with host guardian.co.tt (no www.)                  *)
(*   tag      .../tag/news/n     same host, a denylisted substring         *)
(*   ext      https://facebook.com/...   another host                      *)
(*   none     no URL (href missing)                                        *)
(***************************************************************************)
U(k, i) == [kind |-> k, n |-> i]
NoUrl == U("none", 0)
base_url == U("base", 0)
NumSections == 6
working_urls == [i \in 1..NumSections |-> U("section", i)]
Page(i) == U("page", i)
Story(i) == U("story", i)

\* The limit on discovered URLs that explore_archives crawls.
max_processed == 50
\* The links of the largest front page.
NumFrontLinks == max_processed + MaxExtra
FrontLinks == {Story(i) : i \in 1..NumFrontLinks}

Pages == {Page(i) : i \in 1..(ChainLen + 1)}
Stories == {Story(i) : i \in 1..(ChainLen + 1)} \cup FrontLinks
Urls == {base_url} \cup {working_urls[i] : i \in 1..NumSections} \cup Pages
          \cup Stories \cup {U("bare", 1), U("tag", 1), U("ext", 1)}

netloc(u) ==
  CASE u.kind \in {"base", "section", "page", "story", "tag"} -> "www.guardian.co.tt"
    [] u.kind = "bare" -> "guardian.co.tt"
    [] OTHER -> "facebook.com"
has_excluded_pattern(u) == u.kind \in {"tag", "ext"}
has_valid_pattern(u) == u.kind \in {"story", "bare", "tag"}

is_valid_url(u) ==
  /\ u # NoUrl
  /\ netloc(u) \in {"www.guardian.co.tt", "guardian.co.tt"}
  /\ ~has_excluded_pattern(u)
  /\ has_valid_pattern(u)

\* A total order standing for the string order of URLs (used by list.sort
\* on (page_num, url) pairs).
KindOrd(k) ==
  CASE k = "none" -> 0 [] k = "base" -> 1 [] k = "section" -> 2 [] k = "page" -> 3
    [] k = "story" -> 4 [] k = "bare" -> 5 [] k = "tag" -> 6 [] OTHER -> 7
UrlLeq(a, b) ==
  \/ KindOrd(a.kind) < KindOrd(b.kind)
  \/ KindOrd(a.kind) = KindOrd(b.kind) /\ a.n <= b.n

(***************************************************************************)
(* Dates.  parse_date returns None, a naive datetime or (format            *)
(* '%a, %d %b %Y %H:%M:%S %z') a timezone-aware one.                       *)
(***************************************************************************)
Times == 0..MaxTime
NoDate == [kind |-> "none", t |-> 0]
Naive(t) == [kind |-> "naive", t |-> t]
Aware(t) == [kind |-> "aware", t |-> t]

\* self.start_date and self.end_date: naive datetimes, now - 15 years and now.
start_date == 2
end_date == 4
\* datetime.min, the sort key of a record without date.
datetime_min == -1

\* "accept"/"reject" for True/False; "raise" is the TypeError of comparing a
\* naive with an aware datetime.
is_within_date_range(date) ==
  IF date.kind = "none" THEN "accept"
  ELSE IF date.kind = "aware" THEN "raise"
  ELSE IF start_date <= date.t /\ date.t <= end_date THEN "accept" ELSE "reject"

(***************************************************************************)
(* parse_date.  A date string is modelled by what the three steps of       *)
(* parse_date find in it: iso, whether an ISO-shaped substring is present  *)
(* and denotes a date ("ok") or not ("bad", as 2024-13-01); fmt, the first *)
(* entry of `formats` the whole stripped string matches (0: none; 1 is the *)
(* format with %z); emb, the same as iso for the embedded date patterns of *)
(* the last step; t, the time it denotes.                                  *)
(***************************************************************************)
NumFormats == 12
NoString == [iso |-> "none", fmt |-> 0, emb |-> "none", t |-> 0, str |-> FALSE]
DateStrings ==
  {NoString} \cup
  {[iso |-> i, fmt |-> f, emb |-> e, t |-> t, str |-> TRUE] :
      i \in {"none", "ok", "bad"}, f \in 0..NumFormats,
      e \in {"none", "ok", "bad"}, t \in Times}

parse_date(date_string) ==
  IF ~date_string.str THEN NoDate             \* None.strip() raises, caught
  ELSE IF date_string.iso = "ok" THEN Naive(date_string.t)
  ELSE IF date_string.fmt = 1 THEN Aware(date_string.t)
  ELSE IF date_string.fmt \in 2..NumFormats THEN Naive(date_string.t)
  ELSE IF date_string.emb = "ok" THEN Naive(date_string.t)
  ELSE NoDate

(***************************************************************************)
(* The site: what the renderer shows at each URL.                          *)
(*   heading   the title selectors of extract_article_from_page leave a    *)
(*             title                                                       *)
(*   meta      the date of the page-level metadata, parsed                 *)
(*   elements  the candidate elements of extract_posts that have a title,  *)
(*             in selector order: the URL of their anchor and their date   *)
(*   next      per pagination selector, the links it matches: the URL the  *)
(*             href resolves to, and whether the link is accepted (its     *)
(*             text holds 'next' or 'more', or the href is a number)       *)
(*   numbered  the a[href*="page"] links whose href holds a page number    *)
(*   links     the hrefs the article_link_selectors of explore_archives    *)
(*             match (read on the front page only)                         *)
(***************************************************************************)
Pg(h, m, els, nx, nums, lks) ==
  [heading |-> h, meta |-> m, elements |-> els, next |-> nx,
   numbered |-> nums, links |-> lks]
Blank == Pg(FALSE, NoDate, <<>>, <<>>, <<>>, {})
El(u, d) == [url |-> u, date |-> d]
Lk(u, a) == [url |-> u, acc |-> a]
Num(i, u) == [num |-> i, url |-> u]

\* The chain of the spec: p1 is the front page, p(i) links to p(i+1) by a
\* "next" link, every page lists one story and carries the numbered links
\* of a pagination widget (pages 2..n).
ChainPage(i) == IF i = 1 THEN base_url ELSE Page(i)
ChainWidget == [i \in 1..(ChainLen - 1) |-> Num(i + 1, Page(i + 1))]
SiteChain(widget) ==
  [u \in Urls |->
     IF \E i \in 1..ChainLen : u = ChainPage(i)
     THEN LET i == CHOOSE j \in 1..ChainLen : u = ChainPage(j) IN
          Pg(FALSE, NoDate, <<El(Story(i), Naive(start_date))>>,
             IF i < ChainLen THEN << <<Lk(ChainPage(i + 1), TRUE)>> >> ELSE <<>>,
             IF widget THEN ChainWidget ELSE <<>>, {})
     ELSE Blank]

\* Two listing pages whose "more" links point at each other.
SiteCycle ==
  [u \in Urls |->
     IF u = base_url
     THEN Pg(FALSE, NoDate, <<El(Story(1), NoDate), El(Story(3), Naive(3))>>,
             << <<Lk(NoUrl, TRUE), Lk(Story(1), FALSE)>>, <<Lk(Page(2), TRUE)>> >>, <<>>, {})
     ELSE IF u = Page(2)
     THEN Pg(FALSE, NoDate, <<El(Story(2), Naive(end_date))>>,
             << <<Lk(base_url, TRUE)>> >>, <<>>, {})
     ELSE Blank]

\* Numbered pagination only, the widget out of order.
SiteNumbered ==
  [u \in Urls |->
     IF u = base_url
     THEN Pg(FALSE, NoDate, <<El(Story(1), Naive(3))>>, << <<Lk(Page(2), FALSE)>> >>,
             <<Num(3, Page(3)), Num(2, Page(2)), Num(2, Story(2))>>, {Story(2)})
     ELSE IF u = Page(2)
     THEN Pg(FALSE, NoDate,
             <<El(Story(3), Naive(4)), El(Story(1), Naive(3)), El(Story(2), NoDate)>>, <<>>,
             <<Num(3, Page(3))>>, {})
     ELSE IF u = Page(3)
     THEN Pg(FALSE, NoDate, <<El(Story(4), NoDate)>>, <<>>, <<>>, {})
     ELSE IF u = Story(2)
     THEN Pg(TRUE, Naive(2), <<>>, <<>>, <<>>, {})
     ELSE Blank]

\* A front page listing stories (one twice, one out of the window, one
\* without date, one on another host), whose links lead to article pages;
\* the sections list stories too.
SiteArticles ==
  [u \in Urls |->
     IF u = base_url
     THEN Pg(TRUE, NoDate,
             <<El(Story(1), Naive(3)), El(U("ext", 1), Naive(3)), El(Story(1), Naive(4)),
               El(U("bare", 1), NoDate), El(NoUrl, NoDate), El(Story(2), Naive(1)),
               El(U("tag", 1), NoDate)>>,
             <<>>, <<>>,
             {Story(1), Story(3), Story(4), U("tag", 1), U("ext", 1)})
     ELSE IF u = Story(3)
     THEN Pg(TRUE, Naive(4), <<El(Story(5), NoDate)>>, <<>>, <<>>, {})
     ELSE IF u = Story(4)
     THEN Pg(TRUE, Naive(0), <<El(Story(5), Naive(2))>>,
             << <<Lk(Page(2), TRUE)>> >>, <<>>, {})
     ELSE IF u = Page(2)
     THEN Pg(TRUE, NoDate, <<El(Story(3), Naive(2))>>, <<>>, <<>>, {})
     ELSE IF u = working_urls[1]
     THEN Pg(FALSE, NoDate, <<El(Story(2), Naive(4)), El(Story(3), Naive(3))>>, <<>>, <<>>, {})
     ELSE Blank]

\* Dates in the format the site itself uses ("Fri, 25 Jul 2025 22:58:41
\* -0400"), which parse_date returns timezone-aware.
SiteAware ==
  [u \in Urls |->
     IF u = base_url
     THEN Pg(FALSE, NoDate,
             <<El(Story(1), Naive(3)), El(Story(2), Aware(3)), El(Story(3), Naive(3))>>,
             << <<Lk(Page(2), TRUE)>> >>, <<>>, {Story(4)})
     ELSE IF u = Page(2)
     THEN Pg(FALSE, NoDate, <<El(Story(3), Naive(4))>>, <<>>, <<>>, {})
     ELSE IF u = Story(4)
     THEN Pg(TRUE, Aware(3), <<>>, <<>>, <<>>, {})
     ELSE Blank]

\* A front page with more valid links than explore_archives' limit, to
\* pages that list nothing.
SiteFront ==
  [u \in Urls |->
     IF u = base_url THEN Pg(FALSE, NoDate, <<>>, <<>>, <<>>, FrontLinks)
     ELSE Blank]

\* A family of small sites: the front page and page 2 each list some
\* stories, may carry a "next" link and a pagination widget; story 3 is an
\* article page the front page links to.
GenElements ==
  {<<>>,
   <<El(Story(1), Naive(3)), El(Story(2), NoDate), El(Story(1), Naive(4))>>,
   <<El(Story(2), Naive(1)), El(Story(3), Aware(3)), El(Story(4), Naive(2))>>}
GenNext == {NoUrl, base_url, Page(2), Story(3)}
GenWidgets == {<<>>, <<Num(3, Page(3)), Num(2, Page(2))>>}
GenMeta == {NoDate, Naive(end_date), Naive(start_date - 1)}
SiteGen(e1, n1, w1, e2, n2, w2, m) ==
  [u \in Urls |->
     IF u = base_url
     THEN Pg(FALSE, NoDate, e1, IF n1 = NoUrl THEN <<>> ELSE << <<Lk(n1, TRUE)>> >>, w1,
             {Story(3)})
     ELSE IF u = Page(2)
     THEN Pg(FALSE, NoDate, e2, IF n2 = NoUrl THEN <<>> ELSE << <<Lk(n2, TRUE)>> >>, w2, {})
     ELSE IF u = Story(3)
     THEN Pg(TRUE, m, <<El(Story(1), NoDate)>>, << <<Lk(Page(2), TRUE)>> >>, <<>>, {})
     ELSE Blank]

\* The variable `site` names the site of the session: one of the sites
\* above, or the parameters of a site of the family.
Named(name) ==
  [name |-> name, e1 |-> <<>>, n1 |-> NoUrl, w1 |-> <<>>, e2 |-> <<>>, n2 |-> NoUrl,
   w2 |-> <<>>, m |-> NoDate]
Gen(e1, n1, w1, e2, n2, w2, m) ==
  [name |-> "gen", e1 |-> e1, n1 |-> n1, w1 |-> w1, e2 |-> e2, n2 |-> n2, w2 |-> w2,
   m |-> m]
NamedSites ==
  {Named(n) : n \in {"chain", "chain_widget", "cycle", "numbered", "articles", "aware"}}
GenSites ==
  {Gen(e1, n1, w1, e2, n2, w2, m) :
     e1 \in GenElements, n1 \in GenNext, w1 \in GenWidgets,
     e2 \in GenElements, n2 \in GenNext, w2 \in GenWidgets, m \in GenMeta}
Sites == NamedSites \cup GenSites
SiteOf(s) ==
  CASE s.name = "chain" -> SiteChain(FALSE)
    [] s.name = "chain_widget" -> SiteChain(TRUE)
    [] s.name = "cycle" -> SiteCycle
    [] s.name = "numbered" -> SiteNumbered
    [] s.name = "articles" -> SiteArticles
    [] s.name = "aware" -> SiteAware
    [] s.name = "front" -> SiteFront
    [] OTHER -> SiteGen(s.e1, s.n1, s.w1, s.e2, s.n2, s.w2, s.m)

(***************************************************************************)
(* State.                                                                  *)
(***************************************************************************)
VARIABLES
  site,        \* the site of the session (what the renderer shows at each URL)
  pc,          \* where run() is
  stack,       \* the nested crawl_page / handle_pagination calls, outermost first
  posts,       \* self.posts
  visited,     \* self.visited_urls
  navs,        \* per URL, how often crawl_page called page.goto on it
  cur,         \* the URL the one page object shows
  fails,       \* navigations that failed so far: in crawl_page, in explore_archives
  secIdx,      \* explore_archives: index into working_urls
  discovered,  \* explore_archives: discovered_urls still to iterate over
  processed,   \* explore_archives: processed
  output,      \* what save_results wrote: "nothing" or the sequence of records
  scroll,      \* handle_infinite_scroll: its locals and what it did
  rng,         \* the date filter applied to one date string
  xt           \* extract_post_data / extract_article_from_page on one element or page

\* What the renderer shows at URL u.
PageAt(u) == SiteOf(site)[u]

vars == <<site, pc, stack, posts, visited, navs, cur, fails, secIdx, discovered,
          processed, output, scroll, rng, xt>>
crawlVars == <<site, pc, stack, posts, visited, navs, cur, fails, secIdx, discovered,
               processed, output>>

Frame(f, u, st, a, nums, k) ==
  [fn |-> f, url |-> u, st |-> st, art |-> a, nums |-> nums, k |-> k]
CrawlFrame(u) == Frame("crawl_page", u, "goto", FALSE, <<>>, 0)
PagFrame(u) == Frame("handle_pagination", u, "next", FALSE, <<>>, 0)

Top == stack[Len(stack)]
Pop(s) == SubSeq(s, 1, Len(s) - 1)
Depth(s) == Cardinality({i \in 1..Len(s) : s[i].fn = "crawl_page"})
Running == pc \in {"main", "sections", "discovered"}

\* Where control goes when the crawl_page on top of s returns: a caller in
\* the "next" pass returns True at once, and so does the crawl_page that
\* called it; a caller in the numbered pass goes on with its loop.
RECURSIVE Unwind(_)
Unwind(s) ==
  IF s # <<>> /\ s[Len(s)].fn = "handle_pagination" /\ s[Len(s)].st = "followed"
  THEN Unwind(Pop(Pop(s)))
  ELSE s
Return(s) == Unwind(Pop(s))

(***************************************************************************)
(* extract_posts: the elements whose URL is valid, each record once.       *)
(***************************************************************************)
\* The elements of s in order, each value at its first occurrence only
\* (`if post and post not in posts`, line 128).
Dedup(s) ==
  LET keep == {i \in 1..Len(s) : \A j \in 1..(i - 1) : s[j] # s[i]}
  IN [n \in 1..Cardinality(keep) |->
        s[CHOOSE i \in keep : Cardinality({j \in keep : j <= i}) = n]]
\* The mutant of extract_post_data_ok that only asks for an href.
extract_post_data_anyurl(el) == el.url # NoUrl
\* extract_post_data, lines 150-160: None unless the URL of the anchor is valid.
extract_post_data_ok(el) == is_valid_url(el.url)
extract_posts(page) == Dedup(SelectSeq(page.elements, extract_post_data_ok))

\* extract_article_from_page: a record, or None.
extract_article_from_page(page, url) ==
  IF is_valid_url(url) /\ page.heading THEN El(url, page.meta) ELSE El(NoUrl, NoDate)

(***************************************************************************)
(* The loop of crawl_page over the posts of a listing page (lines 56-65),  *)
(* from post i on: the visited set and the collector it leaves, and        *)
(* whether is_within_date_range raised on the way.                         *)
(***************************************************************************)
\* The mutant of AddPosts that appends without looking at visited_urls.
RECURSIVE AddPostsNoCheck(_, _, _, _)
AddPostsNoCheck(ps, i, vis, col) ==
  IF i > Len(ps) THEN [visited |-> vis, posts |-> col, raised |-> FALSE]
  ELSE LET r == is_within_date_range(ps[i].date) IN
       IF r = "raise" THEN [visited |-> vis \cup {ps[i].url}, posts |-> col, raised |-> TRUE]
       ELSE AddPostsNoCheck(ps, i + 1, vis \cup {ps[i].url},
                            IF r = "accept" THEN Append(col, ps[i]) ELSE col)
\* The mutant of AddPosts that leaves the loop after the first record it
\* appended.
RECURSIVE AddPostsBreak(_, _, _, _)
AddPostsBreak(ps, i, vis, col) ==
  IF i > Len(ps) THEN [visited |-> vis, posts |-> col, raised |-> FALSE]
  ELSE IF ps[i].url \in vis THEN AddPostsBreak(ps, i + 1, vis, col)
  ELSE LET r == is_within_date_range(ps[i].date) IN
       IF r = "raise" THEN [visited |-> vis \cup {ps[i].url}, posts |-> col, raised |-> TRUE]
       ELSE IF r = "accept"
       THEN [visited |-> vis \cup {ps[i].url}, posts |-> Append(col, ps[i]), raised |-> FALSE]
       ELSE AddPostsBreak(ps, i + 1, vis \cup {ps[i].url}, col)
RECURSIVE AddPosts(_, _, _, _)
AddPosts(ps, i, vis, col) ==
  IF i > Len(ps) THEN [visited |-> vis, posts |-> col, raised |-> FALSE]
  ELSE IF ps[i].url \in vis THEN AddPosts(ps, i + 1, vis, col)
  ELSE LET r == is_within_date_range(ps[i].date) IN
       IF r = "raise" THEN [visited |-> vis \cup {ps[i].url}, posts |-> col, raised |-> TRUE]
       ELSE AddPosts(ps, i + 1, vis \cup {ps[i].url},
                     IF r = "accept" THEN Append(col, ps[i]) ELSE col)

(***************************************************************************)
(* run() and crawl_page.                                                   *)
(***************************************************************************)
\* run(), line 24: crawl_page(page, self.base_url).
run_start ==
  /\ pc = "start"
  /\ pc' = "main"
  /\ stack' = <<CrawlFrame(base_url)>>
  /\ UNCHANGED <<site, posts, visited, navs, cur, fails, secIdx, discovered,
                 processed, output, scroll, rng, xt>>

\* The mutant of crawl_page_goto that marks the URL visited before it
\* navigates.
crawl_page_goto_marks ==
  /\ Running /\ stack # <<>>
  /\ Top.fn = "crawl_page" /\ Top.st = "goto"
  /\ Depth(stack) <= RecursionLimit
  /\ navs' = [navs EXCEPT ![Top.url] = @ + 1]
  /\ visited' = visited \cup {Top.url}
  /\ \/ /\ stack' = [stack EXCEPT ![Len(stack)].st = "article"]
        /\ cur' = Top.url
        /\ UNCHANGED fails
     \/ /\ fails.crawl + fails.front < MaxFails
        /\ fails' = [fails EXCEPT !.crawl = @ + 1]
        /\ stack' = Return(stack)
        /\ UNCHANGED cur
  /\ UNCHANGED <<site, pc, posts, secIdx, discovered, processed, output, scroll, rng, xt>>
\* crawl_page, lines 35-38 and 73-74: page.goto, which may raise.
crawl_page_goto ==
  /\ Running /\ stack # <<>>
  /\ Top.fn = "crawl_page" /\ Top.st = "goto"
  /\ Depth(stack) <= RecursionLimit
  /\ navs' = [navs EXCEPT ![Top.url] = @ + 1]
  /\ \/ /\ stack' = [stack EXCEPT ![Len(stack)].st = "article"]
        /\ cur' = Top.url
        /\ UNCHANGED fails
     \/ /\ fails.crawl + fails.front < MaxFails
        /\ fails' = [fails EXCEPT !.crawl = @ + 1]
        /\ stack' = Return(stack)
        /\ UNCHANGED cur
  /\ UNCHANGED <<site, pc, posts, visited, secIdx, discovered, processed, output,
                 scroll, rng, xt>>

\* A crawl_page nested beyond the interpreter's recursion limit: the
\* RecursionError is raised in its try block and caught at line 73.
crawl_page_overflow ==
  /\ Running /\ stack # <<>>
  /\ Top.fn = "crawl_page" /\ Top.st = "goto"
  /\ Depth(stack) > RecursionLimit
  /\ stack' = Return(stack)
  /\ UNCHANGED <<site, pc, posts, visited, navs, cur, fails, secIdx, discovered,
                 processed, output, scroll, rng, xt>>

\* crawl_page, lines 43-51: the page as an article.
crawl_page_article ==
  /\ Running /\ stack # <<>>
  /\ Top.fn = "crawl_page" /\ Top.st = "article"
  /\ LET url == Top.url
         article_post == extract_article_from_page(PageAt(url), url)
         r == is_within_date_range(article_post.date)
         listing == [stack EXCEPT ![Len(stack)].st = "listing",
                                  ![Len(stack)].art = (article_post.url # NoUrl)]
     IN IF article_post.url = NoUrl \/ url \in visited
        THEN /\ stack' = listing
             /\ UNCHANGED <<visited, posts>>
        ELSE /\ visited' = visited \cup {url}
             /\ CASE r = "accept" -> /\ posts' = Append(posts, article_post)
                                     /\ stack' = Return(stack)
                  [] r = "raise" -> /\ posts' = posts
                                    /\ stack' = Return(stack)
                  [] OTHER -> /\ posts' = posts
                              /\ stack' = listing
  /\ UNCHANGED <<site, pc, navs, cur, fails, secIdx, discovered, processed, output,
                 scroll, rng, xt>>

\* crawl_page, lines 53-71: the page as a listing.
crawl_page_listing ==
  /\ Running /\ stack # <<>>
  /\ Top.fn = "crawl_page" /\ Top.st = "listing"
  /\ \E ps \in {extract_posts(PageAt(Top.url))} :
     \E res \in {AddPosts(ps, 1, visited, posts)} :
     LET posts_added == Len(res.posts) - Len(posts)
     IN /\ visited' = res.visited
        /\ posts' = res.posts
        /\ stack' = IF res.raised THEN Return(stack)
                    ELSE IF posts_added > 0 \/ Len(ps) > 0
                    THEN Append([stack EXCEPT ![Len(stack)].st = "pagination"],
                                PagFrame(Top.url))
                    ELSE Return(stack)
  /\ UNCHANGED <<site, pc, navs, cur, fails, secIdx, discovered, processed, output,
                 scroll, rng, xt>>

(***************************************************************************)
(* handle_pagination.                                                      *)
(***************************************************************************)
RECURSIVE Flatten(_)
Flatten(ss) == IF ss = <<>> THEN <<>> ELSE Flatten(Pop(ss)) \o ss[Len(ss)]
SetMin(S) == CHOOSE x \in S : \A y \in S : x <= y

\* The link the "next" pass follows (lines 459-471): the first, in selector
\* order, that has an href, is accepted and is not in visited_urls; NoUrl
\* when there is none.
FollowedNext(page, vis) ==
  LET links == Flatten(page.next)
      ok == {i \in 1..Len(links) :
               links[i].url # NoUrl /\ links[i].acc /\ links[i].url \notin vis}
  IN IF ok = {} THEN NoUrl ELSE links[SetMin(ok)].url

\* page_numbers.sort() (line 491): ascending by (page_num, url).
PairLeq(a, b) == a.num < b.num \/ (a.num = b.num /\ UrlLeq(a.url, b.url))
\* The place of s[i] in the sorted list: after every smaller pair, and after
\* the equal pairs that stand before it.
PairRank(s, i) ==
  1 + Cardinality({j \in 1..Len(s) :
                     \/ ~PairLeq(s[i], s[j])
                     \/ (s[j] = s[i] /\ j < i)})
\* The mutant of SortPairs that leaves the pairs in document order.
SortPairsUnsorted(s) == s
SortPairs(s) == [n \in 1..Len(s) |-> s[CHOOSE i \in 1..Len(s) : PairRank(s, i) = n]]

\* The mutant of handle_pagination_next that goes on with its "next" pass
\* on the page after the link it followed.
handle_pagination_next_continue ==
  /\ Running /\ stack # <<>>
  /\ Top.fn = "handle_pagination" /\ Top.st = "next"
  /\ LET page == PageAt(Top.url)
         next_url == FollowedNext(page, visited)
     IN /\ stack' =
             IF next_url # NoUrl
             THEN Append(stack, CrawlFrame(next_url))
             ELSE [stack EXCEPT ![Len(stack)].st = "numbered",
                                ![Len(stack)].nums = SortPairs(page.numbered),
                                ![Len(stack)].k = 1]
        /\ visited' = IF next_url # NoUrl THEN visited \cup {next_url} ELSE visited
  /\ UNCHANGED <<site, pc, posts, navs, cur, fails, secIdx, discovered,
                 processed, output, scroll, rng, xt>>
\* The mutant of handle_pagination_next that goes on with the numbered pass
\* after the link it followed.
handle_pagination_next_fallthrough ==
  /\ Running /\ stack # <<>>
  /\ Top.fn = "handle_pagination" /\ Top.st = "next"
  /\ LET page == PageAt(Top.url)
         next_url == FollowedNext(page, visited)
         numbered == [stack EXCEPT ![Len(stack)].st = "numbered",
                                   ![Len(stack)].nums = SortPairs(page.numbered),
                                   ![Len(stack)].k = 1]
     IN stack' = IF next_url # NoUrl THEN Append(numbered, CrawlFrame(next_url))
                 ELSE numbered
  /\ UNCHANGED <<site, pc, posts, visited, navs, cur, fails, secIdx, discovered,
                 processed, output, scroll, rng, xt>>
\* handle_pagination, lines 458-491: the "next" pass, and when it follows
\* nothing the collection of the numbered links.
handle_pagination_next ==
  /\ Running /\ stack # <<>>
  /\ Top.fn = "handle_pagination" /\ Top.st = "next"
  /\ LET page == PageAt(Top.url)
         next_url == FollowedNext(page, visited)
     IN stack' =
          IF next_url # NoUrl
          THEN Append([stack EXCEPT ![Len(stack)].st = "followed"], CrawlFrame(next_url))
          ELSE [stack EXCEPT ![Len(stack)].st = "numbered",
                             ![Len(stack)].nums = SortPairs(page.numbered),
                             ![Len(stack)].k = 1]
  /\ UNCHANGED <<site, pc, posts, visited, navs, cur, fails, secIdx, discovered,
                 processed, output, scroll, rng, xt>>

\* The mutant of handle_pagination_numbered that does not advance in
\* page_numbers past a URL already visited.
handle_pagination_numbered_stuck ==
  /\ Running /\ stack # <<>>
  /\ Top.fn = "handle_pagination" /\ Top.st = "numbered"
  /\ stack' = IF Top.k > Len(Top.nums) THEN Return(Pop(stack))
              ELSE IF Top.nums[Top.k].url \notin visited
              THEN Append([stack EXCEPT ![Len(stack)].k = @ + 1],
                          CrawlFrame(Top.nums[Top.k].url))
              ELSE stack
  /\ UNCHANGED <<site, pc, posts, visited, navs, cur, fails, secIdx, discovered,
                 processed, output, scroll, rng, xt>>
\* handle_pagination, lines 492-500: one turn of the loop over the sorted
\* page_numbers; after the last, handle_pagination returns False and the
\* crawl_page that called it ends.
handle_pagination_numbered ==
  /\ Running /\ stack # <<>>
  /\ Top.fn = "handle_pagination" /\ Top.st = "numbered"
  /\ stack' = IF Top.k > Len(Top.nums) THEN Return(Pop(stack))
              ELSE IF Top.nums[Top.k].url \notin visited
              THEN Append([stack EXCEPT ![Len(stack)].k = @ + 1],
                          CrawlFrame(Top.nums[Top.k].url))
              ELSE [stack EXCEPT ![Len(stack)].k = @ + 1]
  /\ UNCHANGED <<site, pc, posts, visited, navs, cur, fails, secIdx, discovered,
                 processed, output, scroll, rng, xt>>

(***************************************************************************)
(* explore_archives.                                                       *)
(***************************************************************************)
\* Lines 516-550: the front page is loaded again and its valid links make
\* discovered_urls; a failed navigation leaves the set empty.
explore_archives_discover ==
  /\ pc = "main" /\ stack = <<>>
  /\ pc' = "sections"
  /\ secIdx' = 1
  /\ \/ /\ discovered' = {u \in PageAt(base_url).links : is_valid_url(u)}
        /\ cur' = base_url
        /\ UNCHANGED fails
     \/ /\ fails.crawl + fails.front < MaxFails
        /\ fails' = [fails EXCEPT !.front = @ + 1]
        /\ discovered' = {}
        /\ UNCHANGED cur
  /\ UNCHANGED <<site, stack, posts, visited, navs, processed, output, scroll, rng, xt>>

\* Lines 552-561: one turn of the loop over working_urls.
explore_archives_section ==
  /\ pc = "sections" /\ stack = <<>>
  /\ IF secIdx > NumSections
     THEN /\ pc' = "discovered"
          /\ UNCHANGED <<secIdx, stack>>
     ELSE /\ secIdx' = secIdx + 1
          /\ stack' = IF working_urls[secIdx] \notin visited
                      THEN <<CrawlFrame(working_urls[secIdx])>> ELSE stack
          /\ UNCHANGED pc
  /\ UNCHANGED <<site, posts, visited, navs, cur, fails, discovered, processed, output,
                 scroll, rng, xt>>

\* Lines 563-574: one turn of the loop over discovered_urls (a set: any
\* order); after the last, explore_archives returns.
explore_archives_discovered ==
  /\ pc = "discovered" /\ stack = <<>>
  /\ IF discovered = {}
     THEN /\ pc' = "save"
          /\ UNCHANGED <<discovered, processed, stack>>
     ELSE \E url \in discovered :
            /\ discovered' = discovered \ {url}
            /\ IF url \notin visited /\ processed < max_processed
               THEN /\ processed' = processed + 1
                    /\ stack' = <<CrawlFrame(url)>>
               ELSE UNCHANGED <<processed, stack>>
            /\ UNCHANGED pc
  /\ UNCHANGED <<site, posts, visited, navs, cur, fails, secIdx, output, scroll, rng, xt>>

(***************************************************************************)
(* save_results.                                                           *)
(***************************************************************************)
SortKey(post) == IF post.date.kind = "none" THEN datetime_min ELSE post.date.t
\* The mutant of SortPosts without reverse=True.
SortPostsAscending(s) ==
  LET rank(i) == 1 + Cardinality({j \in 1..Len(s) :
                                    \/ SortKey(s[j]) < SortKey(s[i])
                                    \/ (SortKey(s[j]) = SortKey(s[i]) /\ j < i)})
  IN [n \in 1..Len(s) |-> s[CHOOSE i \in 1..Len(s) : rank(i) = n]]
\* self.posts.sort(key=..., reverse=True), line 589: descending by key,
\* records of equal key in their order of collection (the sort is stable).
SortPosts(s) ==
  LET rank(i) == 1 + Cardinality({j \in 1..Len(s) :
                                    \/ SortKey(s[j]) > SortKey(s[i])
                                    \/ (SortKey(s[j]) = SortKey(s[i]) /\ j < i)})
  IN [n \in 1..Len(s) |-> s[CHOOSE i \in 1..Len(s) : rank(i) = n]]

\* run(), lines 29-32, and save_results: nothing is written when no post
\* was collected; otherwise self.posts is sorted in place and written.
save_results ==
  /\ pc = "save"
  /\ pc' = "done"
  /\ IF posts = <<>>
     THEN UNCHANGED <<posts, output>>
     ELSE /\ posts' = SortPosts(posts)
          /\ output' = [written |-> TRUE, records |-> SortPosts(posts)]
  /\ UNCHANGED <<site, stack, visited, navs, cur, fails, secIdx, discovered, processed,
                 scroll, rng, xt>>

\* Ctrl+C (run_crawler.main, lines 33-34): the KeyboardInterrupt ends
\* asyncio.run; main prints "Crawler stopped by user" and the process ends.
interrupt ==
  /\ pc \in {"start", "main", "sections", "discovered", "save"}
  /\ pc' = "interrupted"
  /\ stack' = <<>>
  /\ UNCHANGED <<site, posts, visited, navs, cur, fails, secIdx, discovered, processed,
                 output, scroll, rng, xt>>

(***************************************************************************)
(* handle_infinite_scroll, with the renderer reporting any height.         *)
(***************************************************************************)
max_scrolls == 10
Heights == 0..MaxHeight
ScrollIdle ==
  [pc |-> "idle", last_height |-> 0, scroll_attempts |-> 0, scrolls |-> 0,
   unchanged |-> FALSE, error |-> FALSE]

\* Line 79: the first height; page.evaluate may raise (lines 97-98).
scroll_start ==
  /\ scroll.pc = "start"
  /\ \/ \E h \in Heights : scroll' = [scroll EXCEPT !.pc = "loop", !.last_height = h]
     \/ scroll' = [scroll EXCEPT !.pc = "done", !.error = TRUE]
  /\ UNCHANGED <<crawlVars, rng, xt>>

\* The mutant of scroll_step whose loop test is <= instead of <.
scroll_step_offbyone ==
  /\ scroll.pc = "loop"
  /\ IF scroll.scroll_attempts <= max_scrolls
     THEN \/ \E new_height \in Heights :
               scroll' = IF new_height = scroll.last_height
                         THEN [scroll EXCEPT !.pc = "done", !.scrolls = @ + 1,
                                             !.unchanged = TRUE]
                         ELSE [scroll EXCEPT !.scrolls = @ + 1,
                                             !.last_height = new_height,
                                             !.scroll_attempts = @ + 1]
          \/ scroll' = [scroll EXCEPT !.pc = "done", !.scrolls = @ + 1, !.error = TRUE]
     ELSE scroll' = [scroll EXCEPT !.pc = "done"]
  /\ UNCHANGED <<crawlVars, rng, xt>>
\* Lines 83-95: the loop test and one turn of the loop: the scroll command,
\* then the new height; either page.evaluate may raise.
scroll_step ==
  /\ scroll.pc = "loop"
  /\ IF scroll.scroll_attempts < max_scrolls
     THEN \/ \E new_height \in Heights :
               scroll' = IF new_height = scroll.last_height
                         THEN [scroll EXCEPT !.pc = "done", !.scrolls = @ + 1,
                                             !.unchanged = TRUE]
                         ELSE [scroll EXCEPT !.scrolls = @ + 1,
                                             !.last_height = new_height,
                                             !.scroll_attempts = @ + 1]
          \/ scroll' = [scroll EXCEPT !.pc = "done", !.scrolls = @ + 1, !.error = TRUE]
          \/ scroll' = [scroll EXCEPT !.pc = "done", !.error = TRUE]
     ELSE scroll' = [scroll EXCEPT !.pc = "done"]
  /\ UNCHANGED <<crawlVars, rng, xt>>

(***************************************************************************)
(* The date filter on what parse_date makes of a date string.              *)
(***************************************************************************)
RngIdle == [pc |-> "idle", s |-> NoString, date |-> NoDate, result |-> "none"]

filter_date ==
  /\ rng.pc = "input"
  /\ LET date == parse_date(rng.s)
     IN rng' = [rng EXCEPT !.pc = "done", !.date = date,
                           !.result = is_within_date_range(date)]
  /\ UNCHANGED <<crawlVars, scroll, xt>>

(***************************************************************************)
(* The selector chains of extract_post_data and extract_article_from_page. *)
(* A text a selector yields is modelled by what the code reads from it:    *)
(*   some  an element matched (query_selector did not return None)         *)
(*   len   the length of the text after strip()                            *)
(*   pad   the text has whitespace around it (so a text of len 0 with pad  *)
(*         is whitespace only: not empty, but empty after strip())         *)
(*   ind   the text holds 'by ', 'author:' or 'written by'                 *)
(*   nam   the text has at most 3 words and those made of letters are      *)
(*         all capitalised                                                 *)
(***************************************************************************)
NumTitleSelectors == 6
NumContentSelectors == 5
NumHeadingSelectors == 3
\* len(title.strip()) > 10 (line 245), len(content.strip()) > 50 (line 216),
\* len(content) < 30 (line 356).
min_title_len == 10
min_content_len == 50
author_max_len == 30

T(l, p, i, n) == [some |-> TRUE, len |-> l, pad |-> p, ind |-> i, nam |-> n]
NoText == [some |-> FALSE, len |-> 0, pad |-> FALSE, ind |-> FALSE, nam |-> FALSE]
EmptyText == T(0, FALSE, FALSE, FALSE)
TitleLens == {0, 1, min_title_len, min_title_len + 1}
ContentLens == {0, author_max_len - 1, author_max_len, min_content_len, min_content_len + 1}
TitleTexts == {T(l, p, FALSE, FALSE) : l \in TitleLens, p \in BOOLEAN}
ContentTexts ==
  {T(0, p, FALSE, TRUE) : p \in BOOLEAN} \cup
  {T(l, p, i, n) : l \in ContentLens \ {0}, p \in BOOLEAN, i \in BOOLEAN, n \in BOOLEAN}

\* The truth value of a string: not None and not ''.
Truthy(t) == t.some /\ (t.len > 0 \/ t.pad)
strip(t) == [t EXCEPT !.pad = FALSE]
\* `x.strip() if x else ''`
StripOrEmpty(t) == IF Truthy(t) THEN strip(t) ELSE EmptyText

is_author_only(content) ==
  \/ content.len < author_max_len /\ content.ind
  \/ content.nam

NoPost == [title |-> NoText, url |-> NoUrl, content |-> NoText]
XtUrls == {NoUrl, Story(1), U("bare", 1), U("ext", 1)}
\* anchor: what element.query_selector('a') finds, once it was asked: the
\* last title selector and the URL extraction make the same query.
XtIdle ==
  [fn |-> "none", pc |-> "idle", i |-> 0, title |-> NoText, anchor |-> "unknown",
   url |-> NoUrl, content |-> NoText, post |-> NoPost]
XtReturn(post) == [xt EXCEPT !.pc = "done", !.post = post]

\* extract_post_data, lines 138-145: one turn of the loop over
\* title_selectors; a Renderer call that raises ends the function (line 227).
extract_post_data_title ==
  /\ xt.fn = "extract_post_data" /\ xt.pc = "title"
  /\ \/ \E title_el \in {NoText} \cup TitleTexts :
          LET title == IF title_el.some THEN title_el ELSE xt.title
              anchor == IF xt.i < NumTitleSelectors THEN "unknown"
                        ELSE IF title_el.some THEN "some" ELSE "none"
          IN xt' = IF (title_el.some /\ Truthy(title) /\ strip(title).len > 0)
                      \/ xt.i = NumTitleSelectors
                   THEN [xt EXCEPT !.title = title, !.anchor = anchor, !.pc = "url"]
                   ELSE [xt EXCEPT !.title = title, !.i = @ + 1]
     \/ xt' = XtReturn(NoPost)
  /\ UNCHANGED <<crawlVars, scroll, rng>>

\* Lines 147-160: no title, or no valid URL: None.  Without anchor there is
\* no URL; the href of an anchor may be missing or lead anywhere.
extract_post_data_url ==
  /\ xt.fn = "extract_post_data" /\ xt.pc = "url"
  /\ IF ~Truthy(xt.title) THEN xt' = XtReturn(NoPost)
     ELSE \E url \in IF xt.anchor = "none" THEN {NoUrl} ELSE XtUrls :
            xt' = IF ~is_valid_url(url) THEN XtReturn(NoPost)
                  ELSE [xt EXCEPT !.url = url, !.pc = "content", !.i = 1]
  /\ UNCHANGED <<crawlVars, scroll, rng>>

\* Lines 210-225: one turn of the loop over content_selectors and, after
\* the last turn, the record.
extract_post_data_content ==
  /\ xt.fn = "extract_post_data" /\ xt.pc = "content"
  /\ \/ \E content_el \in {NoText} \cup ContentTexts :
          LET content == IF content_el.some THEN content_el ELSE xt.content
          IN xt' = IF (content_el.some /\ Truthy(content)
                         /\ strip(content).len > min_content_len
                         /\ ~is_author_only(strip(content)))
                      \/ xt.i = NumContentSelectors
                   THEN [xt EXCEPT !.content = content, !.pc = "done",
                                   !.post = [title |-> StripOrEmpty(xt.title),
                                             url |-> xt.url,
                                             content |-> StripOrEmpty(content)]]
                   ELSE [xt EXCEPT !.content = content, !.i = @ + 1]
     \/ xt' = XtReturn(NoPost)
  /\ UNCHANGED <<crawlVars, scroll, rng>>

\* extract_article_from_page, lines 232-235: the URL must be valid.
extract_article_valid ==
  /\ xt.fn = "extract_article_from_page" /\ xt.pc = "start"
  /\ \E url \in XtUrls :
       xt' = IF ~is_valid_url(url) THEN XtReturn(NoPost)
             ELSE [xt EXCEPT !.url = url, !.pc = "title", !.i = 1]
  /\ UNCHANGED <<crawlVars, scroll, rng>>

\* Lines 238-249 and 291-297: one turn of the loop over title_selectors
\* and, after the last turn, None or the record (its date and content are
\* left out here).
extract_article_title ==
  /\ xt.fn = "extract_article_from_page" /\ xt.pc = "title"
  /\ \/ \E title_el \in {NoText} \cup TitleTexts :
          LET title == IF title_el.some THEN title_el ELSE xt.title
          IN xt' = IF (title_el.some /\ Truthy(title) /\ strip(title).len > min_title_len)
                      \/ xt.i = NumHeadingSelectors
                   THEN IF ~Truthy(title) THEN XtReturn(NoPost)
                        ELSE [xt EXCEPT !.title = title, !.pc = "done",
                                        !.post = [title |-> strip(title), url |-> xt.url,
                                                  content |-> EmptyText]]
                   ELSE [xt EXCEPT !.title = title, !.i = @ + 1]
     \/ xt' = XtReturn(NoPost)
  /\ UNCHANGED <<crawlVars, scroll, rng>>

(***************************************************************************)
(* Specifications.                                                         *)
(***************************************************************************)
NoOutput == [written |-> FALSE, records |-> <<>>]
CrawlInit(p) ==
  /\ pc = p
  /\ stack = <<>>
  /\ posts = <<>>
  /\ visited = {}
  /\ navs = [u \in Urls |-> 0]
  /\ cur = NoUrl
  /\ fails = [crawl |-> 0, front |-> 0]
  /\ secIdx = 0
  /\ discovered = {}
  /\ processed = 0
  /\ output = NoOutput

\* A crawl session on any of the sites.
Init ==
  /\ site \in Sites
  /\ CrawlInit("start")
  /\ scroll = ScrollIdle
  /\ rng = RngIdle
  /\ xt = XtIdle

Crawl ==
  \/ run_start
  \/ crawl_page_goto
  \/ crawl_page_overflow
  \/ crawl_page_article
  \/ crawl_page_listing
  \/ handle_pagination_next
  \/ handle_pagination_numbered
  \/ explore_archives_discover
  \/ explore_archives_section
  \/ explore_archives_discovered
  \/ save_results

Next == Crawl \/ interrupt
Spec == Init /\ [][Next]_vars

\* A session nobody interrupts: the coroutine is always resumed.  Its sites
\* are the named ones and those of the family whose pages all list stories
\* (so that every page is scanned for pagination links).
FairSites ==
  NamedSites \cup
  {Gen(e1, n1, w1, e2, n2, w2, Naive(start_date - 1)) :
     e1 \in GenElements \ {<<>>}, n1 \in GenNext, w1 \in GenWidgets,
     e2 \in GenElements \ {<<>>}, n2 \in GenNext, w2 \in GenWidgets}
FairInit ==
  /\ site \in FairSites
  /\ CrawlInit("start")
  /\ scroll = ScrollIdle
  /\ rng = RngIdle
  /\ xt = XtIdle
FairSpec == FairInit /\ [][Crawl]_vars /\ WF_vars(Crawl)

\* handle_infinite_scroll alone.
ScrollInit ==
  /\ site = Named("cycle")
  /\ CrawlInit("off")
  /\ scroll = [ScrollIdle EXCEPT !.pc = "start"]
  /\ rng = RngIdle
  /\ xt = XtIdle
ScrollNext == scroll_start \/ scroll_step
ScrollSpec == ScrollInit /\ [][ScrollNext]_vars /\ WF_vars(ScrollNext)

\* parse_date and is_within_date_range alone, on every date string.
RangeInit ==
  /\ site = Named("cycle")
  /\ CrawlInit("off")
  /\ scroll = ScrollIdle
  /\ rng \in {[RngIdle EXCEPT !.pc = "input", !.s = s] : s \in DateStrings}
  /\ xt = XtIdle
RangeNext == filter_date
RangeSpec == RangeInit /\ [][RangeNext]_vars

\* extract_post_data on any element, extract_article_from_page on any page.
ExtractInit ==
  /\ site = Named("cycle")
  /\ CrawlInit("off")
  /\ scroll = ScrollIdle
  /\ rng = RngIdle
  /\ xt \in {[XtIdle EXCEPT !.fn = "extract_post_data", !.pc = "title", !.i = 1],
             [XtIdle EXCEPT !.fn = "extract_article_from_page", !.pc = "start"]}
ExtractNext ==
  \/ extract_post_data_title
  \/ extract_post_data_url
  \/ extract_post_data_content
  \/ extract_article_valid
  \/ extract_article_title
ExtractSpec == ExtractInit /\ [][ExtractNext]_vars


\* The last loop of explore_archives on the front page with NumFrontLinks
\* links, from the state it is in after `processed` turns: run() crawled
\* the front page and the sections (which list nothing), and `processed` of
\* the discovered URLs were crawled.
SeedDone(n) == {Story(i) : i \in 1..n}
SeedInit ==
  /\ site = Named("front")
  /\ pc = "discovered"
  /\ stack = <<>>
  /\ posts = <<>>
  /\ visited = {}
  /\ fails = [crawl |-> 0, front |-> 0]
  /\ secIdx = NumSections + 1
  /\ output = NoOutput
  /\ processed \in (max_processed - MaxExtra)..max_processed
  /\ discovered = FrontLinks \ SeedDone(processed)
  /\ cur = IF processed = 0 THEN working_urls[NumSections] ELSE Story(processed)
  /\ navs = [u \in Urls |->
               IF \/ u = base_url
                  \/ \E i \in 1..NumSections : u = working_urls[i]
                  \/ u \in SeedDone(processed)
               THEN 1 ELSE 0]
  /\ scroll = ScrollIdle
  /\ rng = RngIdle
  /\ xt = XtIdle
SeedNext ==
  \/ explore_archives_discovered
  \/ crawl_page_goto
  \/ crawl_page_article
  \/ crawl_page_listing
  \/ save_results
SeedSpec == SeedInit /\ [][SeedNext]_vars

(***************************************************************************)
(* Properties.                                                             *)
(***************************************************************************)
PostUrls(ps) == {ps[i].url : i \in 1..Len(ps)}
Count(ps, r) == Cardinality({i \in 1..Len(ps) : ps[i] = r})
IsPermutation(a, b) ==
  /\ Len(a) = Len(b)
  /\ \A i \in 1..Len(a) : Count(a, a[i]) = Count(b, a[i])

\* C1: the result collector never holds two records with the same URL.
C1_OneRecordPerUrl ==
  \A i, j \in 1..Len(posts) : posts[i].url = posts[j].url => i = j
\* A listing that was crawled offers one URL in two candidate records, and
\* that URL was collected.
C1_Witness ==
  \E u \in Urls :
    /\ navs[u] > 0
    /\ LET ps == extract_posts(PageAt(u))
       IN \E i, j \in 1..Len(ps) :
            i < j /\ ps[i].url = ps[j].url /\ ps[i].url \in PostUrls(posts)

\* C2: in one session crawl_page navigates to each URL at most once.
C2_EachUrlAtMostOnce == \A u \in Urls : navs[u] <= 1

\* C3: on the chain p1 -> ... -> pn of "next"-linked listing pages,
\* whatever numbered links the pages carry, no page of the chain is
\* navigated to twice (p1 is not navigated to again), and a session without
\* navigation failure ends with each page navigated to exactly once.
C3_PaginationBound ==
  site \in {Named("chain"), Named("chain_widget")} =>
    \A i \in 1..ChainLen :
      /\ navs[ChainPage(i)] <= 1
      /\ (pc = "done" /\ fails.crawl = 0) => navs[ChainPage(i)] = 1

C5_InterruptFlushes ==
  (pc = "interrupted" /\ posts # <<>>) => output.written

\* C6: on every date parse_date returns, is_within_date_range answers, and
\* accepts exactly the absent dates and those in [start_date, end_date].
C6_RangeInclusive ==
  rng.pc = "done" =>
    /\ rng.result \in {"accept", "reject"}
    /\ rng.result = "accept" <=>
         \/ rng.date.kind = "none"
         \/ start_date <= rng.date.t /\ rng.date.t <= end_date

\* C7: a crawl_page whose page was classified as an article never goes on
\* to extract_posts or to pagination.
C7_ArticleShortCircuit ==
  \A i \in 1..Len(stack) :
    stack[i].art => stack[i].st \notin {"listing", "pagination"}

\* C8: what save_results writes is a permutation of the collected records,
\* in descending order of date with an absent date as datetime.min, so that
\* every dated record comes before every undated one (and no collected date
\* is timezone-aware, so the keys can be compared).
SortedDescending(rs) ==
  /\ \A i, j \in 1..Len(rs) : i < j => SortKey(rs[i]) >= SortKey(rs[j])
  /\ \A i, j \in 1..Len(rs) :
       (rs[i].date.kind # "none" /\ rs[j].date.kind = "none") => i < j
C8_FinalOrdering ==
  [][(pc = "save" /\ pc' = "done" /\ posts # <<>>) =>
       /\ \A i \in 1..Len(posts) : posts[i].date.kind # "aware"
       /\ output'.written
       /\ IsPermutation(posts, output'.records)
       /\ SortedDescending(output'.records)]_vars
\* Records of two different dates and one without date were written.
C8_Witness ==
  /\ pc = "done" /\ output.written
  /\ \E i, j, k \in 1..Len(output.records) :
       /\ output.records[i].date.kind = "naive"
       /\ output.records[j].date.kind = "naive"
       /\ output.records[i].date.t # output.records[j].date.t
       /\ output.records[k].date.kind = "none"

\* C9: handle_infinite_scroll issues at most max_scrolls scroll commands,
\* issues none after a scroll that left the height unchanged, and returns.
C9_ScrollTerminates ==
  /\ [](scroll.scrolls <= max_scrolls /\ (scroll.unchanged => scroll.pc = "done"))
  /\ <>(scroll.pc = "done")
\* The height grew at every scroll and the loop ended at max_scrolls.
C9_Witness ==
  /\ scroll.pc = "done" /\ ~scroll.unchanged /\ ~scroll.error
  /\ scroll.scrolls = max_scrolls

\* C10: a navigation that fails in crawl_page leaves self.posts and
\* self.visited_urls as they were and returns to the caller as a call that
\* succeeded would; the session goes on and reaches the end of
\* save_results.
C10_NavigationFailureContained ==
  /\ [][(stack # <<>> /\ fails'.crawl = fails.crawl + 1) =>
          /\ posts' = posts
          /\ visited' = visited
          /\ pc' = pc
          /\ stack' = Return(stack)]_vars
  /\ [](fails.crawl > 0 => <>(pc = "done"))
\* A navigation failed in crawl_page and the session still wrote records.
C10_Witness == pc = "done" /\ fails.crawl > 0 /\ output.written

\* C11: an error raised while one candidate record of a listing page is
\* handled stays with that record: when crawl_page has gone through the
\* candidates of a page, every one of them has been filtered, and when there
\* were candidates the pagination of the page is scanned next.
C11_ElementErrorContained ==
  [][(Running /\ pc' = pc /\ stack # <<>> /\ Top.fn = "crawl_page" /\ Top.st = "listing") =>
       LET ps == extract_posts(PageAt(Top.url))
       IN /\ \A i \in 1..Len(ps) : ps[i].url \in visited'
          /\ Len(ps) > 0 =>
               /\ stack' # <<>>
               /\ stack'[Len(stack')] = PagFrame(Top.url)]_vars

\* C12: every record in the result collector has a URL that is_valid_url
\* accepts.
C12_CollectedUrlsValid == \A i \in 1..Len(posts) : is_valid_url(posts[i].url)
\* On the site whose front page offers candidates on another host, with a
\* denylisted substring and without href, a record of the listing extraction
\* and one of the article extraction (story 3, with the date of its own
\* metadata) were collected.
C12_Witness ==
  /\ site = Named("articles")
  /\ \E i, j \in 1..Len(posts) :
       /\ posts[i] = El(Story(1), Naive(3))
       /\ posts[j] = El(Story(3), PageAt(Story(3)).meta)
  /\ \E i \in 1..Len(PageAt(base_url).elements) :
       ~is_valid_url(PageAt(base_url).elements[i].url)

\* C13: every URL crawl_page navigates to, other than the front page and the
\* fixed section URLs the session starts from, is a URL that is_valid_url
\* accepts.
C13_OnlyValidDereferenced ==
  \A u \in Urls :
    (navs[u] > 0 /\ u # base_url /\ \A i \in 1..NumSections : u # working_urls[i])
      => is_valid_url(u)

\* C16: at the moment crawl_page issues the navigation for a URL, that URL
\* is already in visited_urls.
C16_MarkBeforeDereference ==
  [][\A u \in Urls : navs'[u] > navs[u] => u \in visited]_vars

\* C18: on each page where handle_pagination runs, the "next" pass follows
\* the first accepted link and then handle_pagination is over (it does
\* nothing after the call returns); the numbered pass runs exactly when the
\* "next" pass had no link to follow.
C18_PassGating ==
  [][\A i \in 1..Len(stack) :
       (stack[i].fn = "handle_pagination" /\ i <= Len(stack')) =>
         LET next_url == FollowedNext(PageAt(stack[i].url), visited)
         IN /\ (stack[i].st = "next" /\ stack' # stack) =>
                 IF next_url # NoUrl
                 THEN /\ stack'[i].st = "followed"
                      /\ Len(stack') = i + 1
                      /\ stack'[i + 1] = CrawlFrame(next_url)
                 ELSE /\ stack'[i].st = "numbered"
                      /\ Len(stack') = i
            /\ stack[i].st = "followed" => (stack'[i].st = "followed" /\ i < Len(stack'))
            /\ stack[i].st = "numbered" => stack'[i].st = "numbered"]_vars
\* The "next" pass followed a link on a page that carries numbered page
\* links.
C18_Witness ==
  \E i \in 1..Len(stack) :
    /\ stack[i].fn = "handle_pagination" /\ stack[i].st = "followed"
    /\ PageAt(stack[i].url).numbered # <<>>
    /\ navs[stack[i + 1].url] > 0

\* C19: while the pagination of a page is scanned or followed, every
\* candidate record of that page has been filtered already; during the
\* traversal the collector only grows at its end, and what a step appends
\* comes from the page of the innermost crawl_page.
C19_DiscoveryOrder ==
  /\ [](\A i \in 1..Len(stack) :
          stack[i].fn = "handle_pagination" =>
            LET ps == extract_posts(PageAt(stack[i].url))
            IN \A j \in 1..Len(ps) : ps[j].url \in visited)
  /\ [][Running =>
          /\ Len(posts') >= Len(posts)
          /\ SubSeq(posts', 1, Len(posts)) = posts
          /\ \A k \in (Len(posts) + 1)..Len(posts') :
               /\ stack # <<>>
               /\ \/ posts'[k].url = Top.url
                  \/ \E j \in 1..Len(PageAt(Top.url).elements) :
                       posts'[k] = PageAt(Top.url).elements[j]]_vars
\* The pagination of the front page, which has two candidates, is being
\* followed, and a record of the page it led to stands last in the
\* collector, after the records of the front page.
C19_Witness ==
  /\ Len(stack) >= 3
  /\ stack[2].fn = "handle_pagination" /\ stack[2].url = base_url
  /\ Cardinality(PostUrls(extract_posts(PageAt(base_url)))) >= 2
  /\ Len(posts) >= 2
  /\ posts[1].url \in PostUrls(PageAt(base_url).elements)
  /\ posts[Len(posts)].url \notin PostUrls(PageAt(base_url).elements)
  /\ posts[Len(posts)].url \in PostUrls(PageAt(stack[3].url).elements)

\* C14: every record extract_post_data returns (and crawl_page then
\* collects) has a title that is not empty after trimming, whatever texts
\* the title selectors yield.
C14_TitleNonEmpty ==
  (xt.fn = "extract_post_data" /\ xt.pc = "done" /\ xt.post # NoPost) =>
    xt.post.title.len > 0

\* C15: the content of a record of extract_post_data is empty, or a snippet
\* whose trimmed length exceeds min_content_len and that is_author_only
\* does not classify as a byline.
C15_ExcerptSelection ==
  (xt.fn = "extract_post_data" /\ xt.pc = "done" /\ xt.post # NoPost) =>
    \/ xt.post.content.len = 0
    \/ xt.post.content.len > min_content_len /\ ~is_author_only(xt.post.content)

\* C17: extract_article_from_page returns a record only with a heading
\* whose trimmed length exceeds min_title_len.
C17_ArticleNeedsLongHeading ==
  (xt.fn = "extract_article_from_page" /\ xt.pc = "done" /\ xt.post # NoPost) =>
    xt.post.title.len > min_title_len

\* C20: when explore_archives has returned (after a front page that
\* loaded), crawl_page was called on every section URL and on every valid
\* link of the front page that was not visited already.
C20_SeedingComplete ==
  (pc \in {"save", "done"} /\ fails.front = 0) =>
    \A u \in {working_urls[i] : i \in 1..NumSections}
               \cup {l \in PageAt(base_url).links : is_valid_url(l)} :
      u \in visited \/ navs[u] > 0

\* C21: the numbered pass goes through the (number, URL) pairs of the page
\* in non-decreasing order of page number, one pair per turn, and calls
\* crawl_page on the pair of the turn exactly when its URL is not in
\* visited_urls at that moment.
C21_NumberedOrder ==
  /\ [](\A i \in 1..Len(stack) :
          (stack[i].fn = "handle_pagination" /\ stack[i].st = "numbered") =>
            /\ IsPermutation(stack[i].nums, PageAt(stack[i].url).numbered)
            /\ \A a, b \in 1..Len(stack[i].nums) :
                 a < b => stack[i].nums[a].num <= stack[i].nums[b].num)
  /\ [][(stack # <<>> /\ stack' # stack /\ pc' = pc
           /\ Top.fn = "handle_pagination" /\ Top.st = "numbered"
           /\ Top.k <= Len(Top.nums)) =>
          LET i == Len(stack)
              url == Top.nums[Top.k].url
          IN /\ Len(stack') >= i
             /\ stack'[i] = [Top EXCEPT !.k = Top.k + 1]
             /\ IF url \notin visited
                THEN Len(stack') = i + 1 /\ stack'[i + 1] = CrawlFrame(url)
                ELSE Len(stack') = i]_vars
\* On the site whose widget is out of order, page 2 was visited before page
\* 3, and the pair of story 2, which the visit of page 2 put into
\* visited_urls, was passed over when its turn came.
C21_Witness ==
  /\ site = Named("numbered")
  /\ Len(stack) >= 3
  /\ stack[2].fn = "handle_pagination" /\ stack[2].st = "numbered"
  /\ stack[2].url = base_url
  /\ stack[3].url = Page(3)
  /\ navs[Page(2)] = 1 /\ navs[Page(3)] = 1 /\ navs[Story(2)] = 0
  /\ Story(2) \in visited

\* C22: crawl_page, on a page that was not classified as an article, calls
\* handle_pagination exactly when extract_posts returned at least one
\* candidate record.
C22_PaginationTrigger ==
  [][(Running /\ pc' = pc /\ stack # <<>> /\ Top.fn = "crawl_page" /\ Top.st = "listing"
        /\ ~Top.art) =>
       (Len(extract_posts(PageAt(Top.url))) > 0
          <=> /\ Len(stack') = Len(stack) + 1
              /\ stack'[Len(stack')] = PagFrame(Top.url))]_vars

\* C23: a call that is about to query the page (crawl_page before its
\* extraction, handle_pagination before it has read its links) has the page
\* of its own URL in the renderer; a call that has handed the renderer to a
\* recursive crawl_page never runs a query again: the "next" pass and the
\* crawl_page above it return at once, the numbered pass goes on over the
\* pairs it read before.
C23_NoStaleQueries ==
  (Running /\ stack # <<>>) =>
    /\ Top.st \in {"article", "listing", "next"} => cur = Top.url
    /\ Top.st \notin {"pagination", "followed"}
    /\ \A i \in 1..Len(stack) :
         (stack[i].fn = "handle_pagination" /\ stack[i].st = "numbered")
           => stack[i].nums = SortPairs(PageAt(stack[i].url).numbered)
\* The numbered pass goes on after a recursive visit that left another page
\* in the renderer.
C23_Witness ==
  /\ Running /\ stack # <<>>
  /\ Top.fn = "handle_pagination" /\ Top.st = "numbered"
  /\ Top.k > 1 /\ Top.k <= Len(Top.nums)
  /\ cur # Top.url
  /\ navs[Top.nums[Top.k - 1].url] > 0

====
